---------------------------- MODULE Spec2Model ----------------------------
(***************************************************************************)
(* Tuya BLE device session: product catalog and mapping resolution         *)
(* (devices.py, switch.py, button.py), the connection coordinator          *)
(* (devices.py), the switch and button surfaces and their assembly, and    *)
(* the session bootstrap of main.py.                                       *)
(*                                                                         *)
(* The datapoint store (tuya_ble.TuyaBLEDataPoints / TuyaBLEDataPoint) and *)
(* the transport are collaborators whose code is not in the repository;    *)
(* they are modelled from their interface (spec.md section 6).             *)
(***************************************************************************)
EXTENDS Integers, Sequences, FiniteSets, TLC

(***************************************************************************)
(* Bounds of the model.                                                    *)
(***************************************************************************)
\* The debounce delay, counted in clock ticks (SET_DISCONNECTED_DELAY is
\* imported from const.py; its unit here is the model's tick).
DelayTicks == 2
\* How many scheduled set_value tasks may be waiting on the event loop.
MaxTasks == 2

(***************************************************************************)
(* Python values.                                                          *)
(***************************************************************************)
None == [tag |-> "None"]

IsNone(x) == x.tag = "None"

\* A datapoint value: bool, int or bytes (a sequence of 0..255).
PyBool(b) == [k |-> "bool", v |-> b]

PyInt(n) == [k |-> "int", v |-> n]

PyBytes(s) == [k |-> "bytes", v |-> s]

\* bool(x) of a datapoint value.
ToBool(x) ==
    CASE x.k = "bool" -> x.v
      [] x.k = "int" -> x.v # 0
      [] x.k = "bytes" -> Len(x.v) > 0

\* x == n for an int literal n (a Python bool compares as 0 / 1).
PyEqInt(x, n) ==
    CASE x.k = "int" -> x.v = n
      [] x.k = "bool" -> (IF x.v THEN 1 ELSE 0) = n
      [] x.k = "bytes" -> FALSE

\* bytes(x): bytes stay, bytes(n) is n zero bytes (bool counts as 0 / 1), a
\* negative n raises ValueError.
ToBytes(x) ==
    CASE x.k = "bytes" -> [tag |-> "ok", v |-> x.v]
      [] x.k = "bool" -> [tag |-> "ok", v |-> IF x.v THEN <<0>> ELSE <<>>]
      [] x.k = "int" -> IF x.v < 0 THEN [tag |-> "ValueError"]
                        ELSE [tag |-> "ok", v |-> [i \in 1..x.v |-> 0]]

RECURSIVE BitAnd(_, _)
\* v & m on non-negative ints.
BitAnd(v, m) ==
    IF v = 0 \/ m = 0 THEN 0
    ELSE (v % 2) * (m % 2) + 2 * BitAnd(v \div 2, m \div 2)

RECURSIVE BitOr(_, _)
\* v | m on non-negative ints.
BitOr(v, m) ==
    IF v = 0 THEN m
    ELSE IF m = 0 THEN v
    ELSE (IF v % 2 = 1 \/ m % 2 = 1 THEN 1 ELSE 0) + 2 * BitOr(v \div 2, m \div 2)

RECURSIVE BitAndInvert(_, _)
\* v & ~m on non-negative ints: ~m is -m-1, every bit of m flipped to
\* infinite width, so the result keeps the bits of v that m lacks.
BitAndInvert(v, m) ==
    IF v = 0 THEN 0
    ELSE (v % 2) * (1 - (m % 2)) + 2 * BitAndInvert(v \div 2, m \div 2)

\* int.from_bytes(b, "big")
RECURSIVE IntFromBytes(_)
IntFromBytes(b) ==
    IF Len(b) = 0 THEN 0
    ELSE 256 * IntFromBytes(SubSeq(b, 1, Len(b) - 1)) + b[Len(b)]

\* int.to_bytes(n, 2, "big") for n in 0..65535
IntToBytes2(n) == << n \div 256, n % 256 >>

\* b[0:2] and b[2:]
Slice02(b) == SubSeq(b, 1, IF Len(b) < 2 THEN Len(b) ELSE 2)

SliceFrom2(b) == SubSeq(b, 3, Len(b))

(***************************************************************************)
(* Product catalog (devices.py).                                           *)
(***************************************************************************)
TuyaBLEFingerbotInfo(switch, mode, up, down, hold, reverse, manual, program) ==
    [tag |-> "Fingerbot", switch |-> switch, mode |-> mode, up_position |-> up,
     down_position |-> down, hold_time |-> hold, reverse_positions |-> reverse,
     manual_control |-> manual, program |-> program]

TuyaBLEProductInfo(name, fingerbot) ==
    [tag |-> "ProductInfo", name |-> name, fingerbot |-> fingerbot]

TuyaBLECategoryInfo(products, info) ==
    [tag |-> "CategoryInfo", products |-> products, info |-> info]

\* dict.get(key): the stored value, or None.
DictGet(d, key) == IF key \in DOMAIN d THEN d[key] ELSE None

\* d[key] on a dict: the stored value, or KeyError.
DictIndex(d, key) == IF key \in DOMAIN d THEN d[key] ELSE [tag |-> "KeyError"]

\* A Python list / dict held in an optional field.
List(s) == [tag |-> "list", v |-> s]

Dict(f) == [tag |-> "dict", v |-> f]

\* The catalog shipped in devices.py.
devices_database ==
    [c \in {"szjqr", "jtmspro"} |->
        IF c = "szjqr"
        THEN TuyaBLECategoryInfo(
                 [p \in {"xhf790if"} |->
                     TuyaBLEProductInfo("CubeTouch II",
                         TuyaBLEFingerbotInfo(1, 2, 5, 6, 3, 4, 0, 0))],
                 None)
        ELSE TuyaBLECategoryInfo(
                 [p \in {"rlyxv7pe"} |-> TuyaBLEProductInfo("A1 PRO MAX", None)],
                 None)]

\* A catalog exercising what the shipped one leaves at its defaults: a
\* category fallback, manual control, a program datapoint.
lab_database ==
    [c \in {"lab"} |->
        TuyaBLECategoryInfo(
            [p \in {"bitmap", "prog", "prog0", "push"} |->
                CASE p = "bitmap" -> TuyaBLEProductInfo("Bitmap", None)
                  [] p = "prog" -> TuyaBLEProductInfo("Prog",
                         TuyaBLEFingerbotInfo(1, 2, 5, 6, 3, 4, 1, 3))
                  [] p = "prog0" -> TuyaBLEProductInfo("Prog0",
                         TuyaBLEFingerbotInfo(1, 2, 5, 6, 3, 4, 0, 0))
                  [] p = "push" -> TuyaBLEProductInfo("Push",
                         TuyaBLEFingerbotInfo(1, 2, 5, 6, 3, 4, 1, 0))],
            TuyaBLEProductInfo("Generic", None))]

Database(t) == IF t = "shipped" THEN devices_database ELSE lab_database

\* Faulty variant: the category fallback shadows the product entry.
get_product_info_by_ids_fallback_first(database, category, product_id) ==
    LET category_info == DictGet(database, category)
    IN  IF ~IsNone(category_info)
        THEN IF ~IsNone(category_info.info)
             THEN category_info.info
             ELSE DictGet(category_info.products, product_id)
        ELSE None

\* Faulty variant: the product map is indexed instead of looked up with get().
get_product_info_by_ids_indexed(database, category, product_id) ==
    LET category_info == DictGet(database, category)
    IN  IF ~IsNone(category_info)
        THEN DictIndex(category_info.products, product_id)
        ELSE None

\* get_product_info_by_ids, over a catalog.
get_product_info_by_ids(database, category, product_id) ==
    LET category_info == DictGet(database, category)
    IN  IF ~IsNone(category_info)
        THEN LET product_info == DictGet(category_info.products, product_id)
             IN  IF ~IsNone(product_info)
                 THEN product_info
                 ELSE category_info.info
        ELSE None

get_device_product_info(database, dev) ==
    get_product_info_by_ids(database, dev.category, dev.product_id)

(***************************************************************************)
(* Mapping tables (switch.py, button.py).                                  *)
(***************************************************************************)
\* A switch or button mapping.  Predicates are named by the function they
\* hold; "None" is no predicate, "0" the falsy default of TuyaBLELockMapping.
\* Button mappings have no bitmap_mask, getter or setter.
Mapping(dp_id, key, force_add, dp_type, bitmap_mask, is_available, getter, setter) ==
    [dp_id |-> dp_id, key |-> key, force_add |-> force_add, dp_type |-> dp_type,
     bitmap_mask |-> bitmap_mask, is_available |-> is_available,
     getter |-> getter, setter |-> setter]

TuyaBLESwitchMapping(dp_id, key) ==
    Mapping(dp_id, key, TRUE, "None", None, "None", "None", "None")

TuyaBLEFingerbotSwitchMapping(dp_id) ==
    Mapping(dp_id, "switch", TRUE, "None", None,
            "is_fingerbot_in_switch_mode", "None", "None")

TuyaBLEReversePositionsMapping(dp_id) ==
    Mapping(dp_id, "reverse_positions", TRUE, "None", None,
            "is_fingerbot_in_switch_mode", "None", "None")

TuyaBLEButtonMapping(dp_id, key) ==
    Mapping(dp_id, key, TRUE, "None", None, "None", "None", "None")

TuyaBLELockMapping(dp_id, key) ==
    Mapping(dp_id, key, TRUE, "None", None, "0", "None", "None")

TuyaBLEFingerbotModeMapping(dp_id) ==
    Mapping(dp_id, "push", TRUE, "None", None,
            "is_fingerbot_in_push_mode", "None", "None")

\* TuyaBLECategorySwitchMapping / TuyaBLECategoryButtonMapping
TuyaBLECategoryMapping(products, mapping) ==
    [tag |-> "CategoryMapping", products |-> products, mapping |-> mapping]

CubeTouchIds == {"3yqdo5yt", "xhf790if"}

FingerbotIds ==
    {"ltak7e1p", "y6kttvd6", "yrnk7mnn", "nvr2rocq", "bnt7wajf", "rvdceqjh", "5xhbk964"}

\* switch.py: mapping
switch_mapping ==
    [c \in {"ms", "szjqr", "jtmspro"} |->
        CASE c = "ms" ->
                 TuyaBLECategoryMapping(
                     Dict([p \in {"ludzroix", "isk2p555"} |->
                              List(<<TuyaBLESwitchMapping(47, "lock_motor_state")>>)]),
                     None)
          [] c = "szjqr" ->
                 TuyaBLECategoryMapping(
                     Dict([p \in CubeTouchIds \cup FingerbotIds |->
                              IF p \in CubeTouchIds
                              THEN List(<<TuyaBLEFingerbotSwitchMapping(1),
                                          TuyaBLEReversePositionsMapping(4)>>)
                              ELSE List(<<TuyaBLEFingerbotSwitchMapping(2),
                                          TuyaBLEReversePositionsMapping(11)>>)]),
                     None)
          [] c = "jtmspro" ->
                 TuyaBLECategoryMapping(
                     Dict([p \in {"rlyxv7pe"} |->
                              List(<<TuyaBLESwitchMapping(78, "special_control")>>)]),
                     None)]

\* button.py: mapping
button_mapping ==
    [c \in {"jtmspro"} |->
        TuyaBLECategoryMapping(
            Dict([p \in {"rlyxv7pe"} |->
                     List(<<TuyaBLELockMapping(46, "manual_lock"),
                            TuyaBLELockMapping(6, "manual_unlock")>>)]),
            None)]

\* Switch table exercising the mapping fields the shipped table leaves at
\* their defaults: bitmap masks, getter / setter, force_add = False, a
\* category fallback, a category without a product map.
lab_switch_mapping ==
    [c \in {"lab", "bare"} |->
        IF c = "lab"
        THEN TuyaBLECategoryMapping(
                 Dict([p \in {"bitmap", "prog", "prog0", "push"} |->
                     CASE p = "bitmap" ->
                              List(<<Mapping(5, "low", TRUE, "None",
                                             [tag |-> "bytes", v |-> <<1, 0>>],
                                             "None", "None", "None"),
                                     Mapping(5, "high", TRUE, "None",
                                             [tag |-> "bytes", v |-> <<0, 2>>],
                                             "None", "None", "None")>>)
                       [] p \in {"prog", "prog0"} ->
                              List(<<Mapping(10, "repeat_forever", TRUE, "None", None,
                                             "is_fingerbot_in_program_mode",
                                             "get_fingerbot_program_repeat_forever",
                                             "set_fingerbot_program_repeat_forever")>>)
                       [] p = "push" -> List(<<>>)]),
                 List(<<Mapping(7, "plain", FALSE, "DT_BOOL", None,
                                "None", "None", "None")>>))
        ELSE TuyaBLECategoryMapping(
                 None,
                 List(<<TuyaBLESwitchMapping(7, "plain")>>))]

lab_button_mapping ==
    [c \in {"lab", "bare"} |->
        IF c = "lab"
        THEN TuyaBLECategoryMapping(
                 Dict([p \in {"bitmap", "prog", "prog0", "push"} |->
                     IF p = "push"
                     THEN List(<<TuyaBLEFingerbotModeMapping(1)>>)
                     ELSE List(<<>>)]),
                 List(<<Mapping(8, "optional", FALSE, "None", None,
                                "None", "None", "None"),
                        TuyaBLEButtonMapping(9, "forced")>>))
        ELSE TuyaBLECategoryMapping(None, None)]

SwitchTable(t) == IF t = "shipped" THEN switch_mapping ELSE lab_switch_mapping

ButtonTable(t) == IF t = "shipped" THEN button_mapping ELSE lab_button_mapping

\* category.products.get(product_id): AttributeError when products is None.
ProductsGet(products, product_id) ==
    IF IsNone(products) THEN [tag |-> "AttributeError"]
    ELSE DictGet(products.v, product_id)

\* Faulty variant: the category fallback shadows the product list.
get_mapping_by_device_fallback_first(mapping, dev) ==
    LET category == DictGet(mapping, dev.category)
    IN  IF ~IsNone(category) /\ ~IsNone(category.products)
        THEN IF ~IsNone(category.mapping)
             THEN category.mapping
             ELSE LET product_mapping == ProductsGet(category.products, dev.product_id)
                  IN  IF ~IsNone(product_mapping) THEN product_mapping ELSE List(<<>>)
        ELSE List(<<>>)

\* Faulty variant: the product map is read without checking that it is there.
get_mapping_by_device_unguarded(mapping, dev) ==
    LET category == DictGet(mapping, dev.category)
    IN  IF ~IsNone(category)
        THEN LET product_mapping == ProductsGet(category.products, dev.product_id)
             IN  IF ~IsNone(product_mapping)
                 THEN product_mapping
                 ELSE IF ~IsNone(category.mapping)
                      THEN category.mapping
                      ELSE List(<<>>)
        ELSE List(<<>>)

\* switch.py: get_mapping_by_device, over a table.
switch_get_mapping_by_device(mapping, dev) ==
    LET category == DictGet(mapping, dev.category)
    IN  IF ~IsNone(category) /\ ~IsNone(category.products)
        THEN LET product_mapping == ProductsGet(category.products, dev.product_id)
             IN  IF ~IsNone(product_mapping)
                 THEN product_mapping
                 ELSE IF ~IsNone(category.mapping)
                      THEN category.mapping
                      ELSE List(<<>>)
        ELSE List(<<>>)

\* button.py: get_mapping_by_device, over a table.
button_get_mapping_by_device(mapping, dev) ==
    LET category == DictGet(mapping, dev.category)
    IN  IF ~IsNone(category) /\ ~IsNone(category.products)
        THEN LET product_mapping == ProductsGet(category.products, dev.product_id)
             IN  IF ~IsNone(product_mapping)
                 THEN product_mapping
                 ELSE IF ~IsNone(category.mapping)
                      THEN category.mapping
                      ELSE List(<<>>)
        ELSE List(<<>>)

(***************************************************************************)
(* State.                                                                  *)
(***************************************************************************)
VARIABLES
    tables,           \* which catalog / mapping tables the process was built with
    device,           \* TuyaBLEDevice identity: category, product_id
    product,          \* TuyaBLEData.product, resolved by get_ble_data_by_address
    pc,               \* position of main(): "update", "buttons", "serve",
                      \* "stopped"; "raised" when a setup call raised
    disconnected,     \* TuyaBLECoordinator._disconnected
    unsub_disconnect, \* TuyaBLECoordinator._unsub_disconnect
    timers,           \* delayed calls pending on the event loop (ticks left)
    datapoints,       \* device.datapoints: id -> datapoint, None when absent
    tasks,            \* set_value coroutines scheduled by create_task, in order
    switch_mappings,  \* async_setup_switches: mappings
    switches,         \* async_setup_switches: entities
    button_mappings,  \* async_setup_buttons: mappings
    buttons,          \* async_setup_buttons: entities
    since,            \* ticks since a disconnected callback reached a connected
                      \* coordinator and was not yet answered; -1 when none
    absorbed,         \* the last such callback was answered by a connected
                      \* callback before the delay elapsed
    roundtrip,        \* observer of turn_on / turn_off sequences on one switch
    pair,             \* observer of turn_on on two masked switches that share
                      \* a datapoint: who was turned on, how many writes ran
    events,           \* FINGERBOT_BUTTON_EVENT notifications fired so far
    activation        \* the last update callback carried a device-initiated
                      \* change of the trigger datapoint of a product with
                      \* manual control

vars == <<tables, device, product, pc, disconnected, unsub_disconnect, timers,
          datapoints, tasks, switch_mappings, switches, button_mappings, buttons,
          since, absorbed, roundtrip, pair, events, activation>>

coordinator_vars == <<disconnected, unsub_disconnect, timers>>

setup_vars == <<switch_mappings, switches, button_mappings, buttons>>

identity_vars == <<tables, device, product>>

debounce_vars == <<since, absorbed>>

event_vars == <<events, activation>>

\* Every datapoint id a table or a product record names.
DpIds == {1, 2, 3, 4, 5, 6, 7, 8, 9, 10, 11, 46, 47, 78}

Device(category, product_id) == [category |-> category, product_id |-> product_id]

\* The device identities a session is opened for.
Devices(t) ==
    IF t = "shipped"
    THEN {Device("jtmspro", "rlyxv7pe"), Device("szjqr", "xhf790if"),
          Device("szjqr", "3yqdo5yt"), Device("ms", "ludzroix"),
          Device("ms", "unknown"), Device("zz", "unknown")}
    ELSE {Device("lab", "bitmap"), Device("lab", "prog"), Device("lab", "prog0"),
          Device("lab", "push"), Device("lab", "unknown"),
          Device("bare", "unknown"), Device("zz", "unknown")}

(***************************************************************************)
(* Datapoint store and transport (collaborators).                          *)
(***************************************************************************)
DataPoint(type, value) == [tag |-> "DataPoint", type |-> type, value |-> value]

Report(id, type, value) == [id |-> id, type |-> type, value |-> value]

\* What the device may report for each of its datapoints.
DeviceReports(t, dev) ==
    LET Bools(id) == {Report(id, "DT_BOOL", PyBool(b)) : b \in BOOLEAN}
        Ints(id, S) == {Report(id, "DT_ENUM", PyInt(n)) : n \in S}
        Raws(id, type, S) == {Report(id, type, PyBytes(b)) : b \in S}
    IN  CASE dev = Device("jtmspro", "rlyxv7pe") -> Bools(78) \cup Bools(46) \cup Bools(6)
          [] dev \in {Device("szjqr", "xhf790if"), Device("szjqr", "3yqdo5yt")} ->
                 Bools(1) \cup Bools(4) \cup Ints(2, {0, 1})
          [] dev = Device("ms", "ludzroix") -> Bools(47)
          [] dev = Device("lab", "bitmap") ->
                 Raws(5, "DT_BITMAP", {<<128, 0>>, <<129, 2>>, <<1>>})
          [] dev \in {Device("lab", "prog"), Device("lab", "prog0")} ->
                 Ints(2, {0, 2})
                 \cup Raws(3, "DT_RAW", {<<0, 3, 9>>, <<255, 255, 7>>, <<5>>})
                 \cup {Report(3, "DT_VALUE", PyInt(4))}
          [] dev = Device("lab", "push") -> Bools(1) \cup Ints(2, {0, 1})
          [] dev = Device("lab", "unknown") ->
                 Bools(7) \cup {Report(7, "DT_VALUE", PyInt(1))} \cup Bools(8) \cup Bools(9)
          [] dev = Device("bare", "unknown") -> Bools(7)
          [] OTHER -> {}

\* datapoints[id]: the datapoint, or None.
datapoints_getitem(id) == datapoints[id]

\* datapoints.has_id(id, type)
has_id(id, type) ==
    /\ ~IsNone(datapoints[id])
    /\ (type = "None" \/ datapoints[id].type = type)

\* datapoints.get_or_create(id, type, value): the store afterwards.
get_or_create(id, type, value) ==
    IF IsNone(datapoints[id])
    THEN [datapoints EXCEPT ![id] = DataPoint(type, value)]
    ELSE datapoints

\* The value set_value stores in a datapoint of the given type.
Coerce(type, value) ==
    CASE type \in {"DT_RAW", "DT_BITMAP"} ->
             LET b == ToBytes(value) IN IF b.tag = "ok" THEN PyBytes(b.v) ELSE value
      [] type = "DT_BOOL" -> PyBool(ToBool(value))
      [] OTHER -> value

\* TuyaBLEDataPoint.set_value(value), once its task runs.
set_value(store, id, value) ==
    [store EXCEPT ![id] = DataPoint(store[id].type, Coerce(store[id].type, value))]

\* The transport stores a reported datapoint.
update_from_device(store, r) == [store EXCEPT ![r.id] = DataPoint(r.type, r.value)]

(***************************************************************************)
(* Connection coordinator (devices.py: TuyaBLECoordinator).                *)
(***************************************************************************)
Coordinator == [disconnected |-> disconnected,
                unsub_disconnect |-> unsub_disconnect,
                timers |-> timers]

\* Faulty variant: the coordinator starts out connected.
coordinator_init_connected ==
    [disconnected |-> FALSE, unsub_disconnect |-> None, timers |-> {}]

\* TuyaBLECoordinator.__init__
coordinator_init == [disconnected |-> TRUE, unsub_disconnect |-> None, timers |-> {}]

\* TuyaBLECoordinator.connected
connected == ~disconnected

\* Calling a cancel token: the delayed call it stands for is dropped.
Cancel(pending, token) == {t \in pending : t.id # token.id}

\* _async_handle_connect: a held token is called, never cleared.
async_handle_connect(c) ==
    LET c1 == IF ~IsNone(c.unsub_disconnect)
              THEN [c EXCEPT !.timers = Cancel(c.timers, c.unsub_disconnect)]
              ELSE c
    IN  IF c1.disconnected THEN [c1 EXCEPT !.disconnected = FALSE] ELSE c1

\* Faulty variant: the update callback skips the connect transition.
async_handle_update_without_connect(c, updates) == c

\* _async_handle_update: the connect transition, then the loop over the
\* updates, whose body is the statement "...".
async_handle_update(c, updates) == async_handle_connect(c)

\* The datapoint handed to the update callback: its id and whether the device
\* itself changed it (False on the echo of a command).
Update(r, changed_by_device) ==
    [id |-> r.id, changed_by_device |-> changed_by_device]

\* The loop of _async_handle_update over one product's updates: the body under
\* the trigger test is "...", the bus.fire call is commented out.
RECURSIVE fired_for(_, _)
fired_for(info, updates) ==
    IF updates = <<>>
    THEN <<>>
    ELSE LET update == Head(updates)
         IN  (IF update.id = info.fingerbot.switch /\ update.changed_by_device
              THEN <<>>
              ELSE <<>>) \o fired_for(info, Tail(updates))

\* The events _async_handle_update fires for the updates it is called with.
async_handle_update_events(info, updates) ==
    IF ~IsNone(info) /\ ~IsNone(info.fingerbot) /\ info.fingerbot.manual_control # 0
    THEN fired_for(info, updates)
    ELSE <<>>

\* _set_disconnected
set_disconnected(c) == [c EXCEPT !.disconnected = TRUE, !.unsub_disconnect = None]

\* Faulty variant: the disconnected callback flips the state at once, no debounce.
async_handle_disconnect_immediate(c) == [c EXCEPT !.disconnected = TRUE]

\* _async_handle_disconnect: with no token held it reads the delay into a
\* local and returns; the call that would arm the timer is commented out.
async_handle_disconnect(c) ==
    IF IsNone(c.unsub_disconnect) THEN c ELSE c

\* The event loop after one tick: delayed calls that come due run
\* _set_disconnected, the others wait one tick less.
tick(c) ==
    LET due == {t \in c.timers : t.left <= 1}
        waiting == {[t EXCEPT !.left = @ - 1] : t \in c.timers \ due}
        c1 == [c EXCEPT !.timers = waiting]
    IN  IF due # {} THEN set_disconnected(c1) ELSE c1

SetCoordinator(c) ==
    /\ disconnected' = c.disconnected
    /\ unsub_disconnect' = c.unsub_disconnect
    /\ timers' = c.timers

(***************************************************************************)
(* Predicates, getter and setter of the mapping tables.                    *)
(***************************************************************************)
RetBool(b) == [tag |-> "bool", v |-> b]

Raise(e) == [tag |-> e]

\* switch.py: is_fingerbot_in_program_mode
is_fingerbot_in_program_mode(prod) ==
    IF IsNone(prod) THEN Raise("AttributeError")
    ELSE IF ~IsNone(prod.fingerbot)
         THEN LET datapoint == datapoints_getitem(prod.fingerbot.mode)
              IN  IF ~IsNone(datapoint)
                  THEN RetBool(PyEqInt(datapoint.value, 2))
                  ELSE RetBool(TRUE)
         ELSE RetBool(TRUE)

\* Faulty variant: the switch-mode predicate never looks at the mode datapoint.
is_fingerbot_in_switch_mode_unread(prod) ==
    IF IsNone(prod) THEN Raise("AttributeError") ELSE RetBool(TRUE)

\* switch.py: is_fingerbot_in_switch_mode
is_fingerbot_in_switch_mode(prod) ==
    IF IsNone(prod) THEN Raise("AttributeError")
    ELSE IF ~IsNone(prod.fingerbot)
         THEN LET datapoint == datapoints_getitem(prod.fingerbot.mode)
              IN  IF ~IsNone(datapoint)
                  THEN RetBool(PyEqInt(datapoint.value, 1))
                  ELSE RetBool(TRUE)
         ELSE RetBool(TRUE)

\* button.py: is_fingerbot_in_push_mode
is_fingerbot_in_push_mode(prod) ==
    IF IsNone(prod) THEN Raise("AttributeError")
    ELSE IF ~IsNone(prod.fingerbot)
         THEN LET datapoint == datapoints_getitem(prod.fingerbot.mode)
              IN  IF ~IsNone(datapoint)
                  THEN RetBool(PyEqInt(datapoint.value, 0))
                  ELSE RetBool(TRUE)
         ELSE RetBool(TRUE)

\* switch.py: get_fingerbot_program_repeat_forever
get_fingerbot_program_repeat_forever(prod) ==
    IF IsNone(prod) THEN Raise("AttributeError")
    ELSE IF ~IsNone(prod.fingerbot) /\ prod.fingerbot.program # 0
         THEN LET datapoint == datapoints_getitem(prod.fingerbot.program)
              IN  IF ~IsNone(datapoint) /\ datapoint.value.k = "bytes"
                  THEN RetBool(IntFromBytes(Slice02(datapoint.value.v)) = 65535)
                  ELSE None
         ELSE None

\* What a write method leaves behind: the store, the task it scheduled (or
\* None) and the exception it raised (or "None").
Effect(store, task, raised) == [store |-> store, task |-> task, raised |-> raised]

Task(id, value) == [tag |-> "task", id |-> id, value |-> value]

\* Faulty variant: the whole value is replaced by the two-byte repeat count.
repeat_forever_value_truncating(old, value) == IntToBytes2(IF value THEN 65535 ELSE 1)

\* The bytes set_fingerbot_program_repeat_forever writes.
repeat_forever_value(old, value) ==
    IntToBytes2(IF value THEN 65535 ELSE 1) \o SliceFrom2(old)

\* switch.py: set_fingerbot_program_repeat_forever
set_fingerbot_program_repeat_forever(prod, value) ==
    IF IsNone(prod) THEN Effect(datapoints, None, "AttributeError")
    ELSE IF ~IsNone(prod.fingerbot) /\ prod.fingerbot.program # 0
         THEN LET datapoint == datapoints_getitem(prod.fingerbot.program)
              IN  IF ~IsNone(datapoint) /\ datapoint.value.k = "bytes"
                  THEN Effect(datapoints,
                              Task(prod.fingerbot.program,
                                   PyBytes(repeat_forever_value(datapoint.value.v, value))),
                              "None")
                  ELSE Effect(datapoints, None, "None")
         ELSE Effect(datapoints, None, "None")

\* Truthiness of a predicate field and of a mask field.
Truthy(f) == f \notin {"None", "0"}

MaskTruthy(mask) == ~IsNone(mask) /\ Len(mask.v) > 0

IsAvailablePredicate(name, prod) ==
    CASE name = "is_fingerbot_in_program_mode" -> is_fingerbot_in_program_mode(prod)
      [] name = "is_fingerbot_in_switch_mode" -> is_fingerbot_in_switch_mode(prod)
      [] name = "is_fingerbot_in_push_mode" -> is_fingerbot_in_push_mode(prod)

(***************************************************************************)
(* Surfaces (switch.py: TuyaBLESwitch, button.py: TuyaBLEButton).          *)
(***************************************************************************)
\* TuyaBLEEntity.available
entity_available == connected

\* Faulty variant: the predicate is consulted before the coordinator.
switch_available_predicate_first(m) ==
    IF Truthy(m.is_available)
    THEN IsAvailablePredicate(m.is_available, product)
    ELSE RetBool(entity_available)

\* Faulty variant: the predicate of the mapping is never consulted.
switch_available_ignoring_predicate(m) == RetBool(entity_available)

\* TuyaBLESwitch.available
switch_available(m) ==
    LET result == entity_available
    IN  IF result /\ Truthy(m.is_available)
        THEN IsAvailablePredicate(m.is_available, product)
        ELSE RetBool(result)

\* TuyaBLEButton.available
button_available(m) ==
    LET result == entity_available
    IN  IF result /\ Truthy(m.is_available)
        THEN IsAvailablePredicate(m.is_available, product)
        ELSE RetBool(result)

\* The store after available: the property and the predicates of the tables
\* only index the store, none writes to it.
switch_available_datapoints(m) == datapoints

button_available_datapoints(m) == datapoints

RECURSIVE ZipAnyAnd(_, _)
\* The loop of is_on over zip(bitmap_value, bitmap_mask, strict=True): True at
\* the first pair with a common bit, ValueError when one side ends before the
\* other, and past the loop the method's last statement returns False.
ZipAnyAnd(value, mask) ==
    IF Len(value) = 0 /\ Len(mask) = 0 THEN RetBool(FALSE)
    ELSE IF Len(value) = 0 \/ Len(mask) = 0 THEN Raise("ValueError")
    ELSE IF BitAnd(Head(value), Head(mask)) # 0 THEN RetBool(TRUE)
    ELSE ZipAnyAnd(Tail(value), Tail(mask))

\* Faulty variant: the datapoint is read without the check that it is there.
is_on_unchecked(m) ==
    IF Truthy(m.getter)
    THEN get_fingerbot_program_repeat_forever(product)
    ELSE LET datapoint == datapoints_getitem(m.dp_id)
         IN  IF IsNone(datapoint) THEN Raise("AttributeError")
             ELSE IF datapoint.type \in {"DT_RAW", "DT_BITMAP"} /\ MaskTruthy(m.bitmap_mask)
                  THEN LET bitmap_value == ToBytes(datapoint.value)
                       IN  IF bitmap_value.tag # "ok"
                           THEN Raise(bitmap_value.tag)
                           ELSE ZipAnyAnd(bitmap_value.v, m.bitmap_mask.v)
                  ELSE RetBool(ToBool(datapoint.value))

\* TuyaBLESwitch.is_on
is_on(m) ==
    IF Truthy(m.getter)
    THEN get_fingerbot_program_repeat_forever(product)
    ELSE LET datapoint == datapoints_getitem(m.dp_id)
         IN  IF ~IsNone(datapoint)
             THEN IF datapoint.type \in {"DT_RAW", "DT_BITMAP"} /\ MaskTruthy(m.bitmap_mask)
                  THEN LET bitmap_value == ToBytes(datapoint.value)
                       IN  IF bitmap_value.tag # "ok"
                           THEN Raise(bitmap_value.tag)
                           ELSE ZipAnyAnd(bitmap_value.v, m.bitmap_mask.v)
                  ELSE RetBool(ToBool(datapoint.value))
             ELSE RetBool(FALSE)

\* Faulty variant: the read fetches its datapoint with get_or_create.
is_on_datapoints_creating(m) ==
    IF Truthy(m.getter) THEN datapoints
    ELSE get_or_create(m.dp_id, "DT_BOOL", PyBool(FALSE))

\* The store after is_on: the getter and the method itself only index the
\* store, neither writes to it.
is_on_datapoints(m) == datapoints

\* Faulty variant: turn_off keeps the masked bits instead of clearing them.
turn_off_byte_keeping(v, m) == BitAnd(v, m)

\* Faulty variant: turn_on writes the mask byte over the value byte.
turn_on_byte_replacing(v, m) == m

\* v | m and v & ~m of one zipped pair.
turn_on_byte(v, m) == BitOr(v, m)

turn_off_byte(v, m) == BitAndInvert(v, m)

\* bytes(... for (v, m) in zip(bitmap_value, bitmap_mask, strict=True)):
\* ValueError when the lengths differ.
ZipOr(value, mask) ==
    IF Len(value) # Len(mask) THEN Raise("ValueError")
    ELSE [tag |-> "ok", v |-> [i \in 1..Len(value) |-> turn_on_byte(value[i], mask[i])]]

ZipAndInvert(value, mask) ==
    IF Len(value) # Len(mask) THEN Raise("ValueError")
    ELSE [tag |-> "ok", v |-> [i \in 1..Len(value) |-> turn_off_byte(value[i], mask[i])]]

\* Faulty variant: turn_on creates an absent boolean datapoint holding false.
turn_on_effect_default_false(m) ==
    IF Truthy(m.setter)
    THEN set_fingerbot_program_repeat_forever(product, TRUE)
    ELSE IF MaskTruthy(m.bitmap_mask)
         THEN LET store == get_or_create(m.dp_id, "DT_BITMAP", PyBytes(m.bitmap_mask.v))
                  bitmap_value == ToBytes(store[m.dp_id].value)
                  new_value == IF bitmap_value.tag = "ok"
                               THEN ZipOr(bitmap_value.v, m.bitmap_mask.v)
                               ELSE bitmap_value
              IN  IF new_value.tag = "ok"
                  THEN Effect(store, Task(m.dp_id, PyBytes(new_value.v)), "None")
                  ELSE Effect(store, None, new_value.tag)
         ELSE LET store == get_or_create(m.dp_id, "DT_BOOL", PyBool(FALSE))
              IN  Effect(store, Task(m.dp_id, PyBool(TRUE)), "None")

\* TuyaBLESwitch.turn_on
turn_on_effect(m) ==
    IF Truthy(m.setter)
    THEN set_fingerbot_program_repeat_forever(product, TRUE)
    ELSE IF MaskTruthy(m.bitmap_mask)
         THEN LET store == get_or_create(m.dp_id, "DT_BITMAP", PyBytes(m.bitmap_mask.v))
                  bitmap_value == ToBytes(store[m.dp_id].value)
                  new_value == IF bitmap_value.tag = "ok"
                               THEN ZipOr(bitmap_value.v, m.bitmap_mask.v)
                               ELSE bitmap_value
              IN  IF new_value.tag = "ok"
                  THEN Effect(store, Task(m.dp_id, PyBytes(new_value.v)), "None")
                  ELSE Effect(store, None, new_value.tag)
         ELSE LET store == get_or_create(m.dp_id, "DT_BOOL", PyBool(TRUE))
              IN  Effect(store, Task(m.dp_id, PyBool(TRUE)), "None")

\* Faulty variant: turn_off runs the default encoding although a setter is
\* configured.
turn_off_effect_ignoring_setter(m) ==
    IF MaskTruthy(m.bitmap_mask)
    THEN LET store == get_or_create(m.dp_id, "DT_BITMAP", PyBytes(m.bitmap_mask.v))
             bitmap_value == ToBytes(store[m.dp_id].value)
             new_value == IF bitmap_value.tag = "ok"
                          THEN ZipAndInvert(bitmap_value.v, m.bitmap_mask.v)
                          ELSE bitmap_value
         IN  IF new_value.tag = "ok"
             THEN Effect(store, Task(m.dp_id, PyBytes(new_value.v)), "None")
             ELSE Effect(store, None, new_value.tag)
    ELSE LET store == get_or_create(m.dp_id, "DT_BOOL", PyBool(FALSE))
         IN  Effect(store, Task(m.dp_id, PyBool(FALSE)), "None")

\* TuyaBLESwitch.turn_off
turn_off_effect(m) ==
    IF Truthy(m.setter)
    THEN set_fingerbot_program_repeat_forever(product, FALSE)
    ELSE IF MaskTruthy(m.bitmap_mask)
         THEN LET store == get_or_create(m.dp_id, "DT_BITMAP", PyBytes(m.bitmap_mask.v))
                  bitmap_value == ToBytes(store[m.dp_id].value)
                  new_value == IF bitmap_value.tag = "ok"
                               THEN ZipAndInvert(bitmap_value.v, m.bitmap_mask.v)
                               ELSE bitmap_value
              IN  IF new_value.tag = "ok"
                  THEN Effect(store, Task(m.dp_id, PyBytes(new_value.v)), "None")
                  ELSE Effect(store, None, new_value.tag)
         ELSE LET store == get_or_create(m.dp_id, "DT_BOOL", PyBool(FALSE))
              IN  Effect(store, Task(m.dp_id, PyBool(FALSE)), "None")

\* Faulty variant: press writes true instead of the negation of the stored value.
press_effect_always_true(m) ==
    LET store == get_or_create(m.dp_id, "DT_BOOL", PyBool(FALSE))
    IN  Effect(store, Task(m.dp_id, PyBool(TRUE)), "None")

\* TuyaBLEButton.press
press_effect(m) ==
    LET store == get_or_create(m.dp_id, "DT_BOOL", PyBool(FALSE))
        datapoint == store[m.dp_id]
    IN  Effect(store, Task(m.dp_id, PyBool(~ToBool(datapoint.value))), "None")

(***************************************************************************)
(* Setup (switch.py: async_setup_switches, button.py: async_setup_buttons). *)
(***************************************************************************)
\* Faulty variant: force_add is ignored, only reported datapoints get a surface.
keep_mapping_ignoring_force_add(m) == has_id(m.dp_id, m.dp_type)

\* The condition under which the setup loop appends an entity.
keep_mapping(m) == m.force_add \/ has_id(m.dp_id, m.dp_type)

RECURSIVE setup_entities(_)
\* The loop over mappings, appending in order.
setup_entities(mappings) ==
    IF Len(mappings) = 0 THEN <<>>
    ELSE (IF keep_mapping(Head(mappings)) THEN <<Head(mappings)>> ELSE <<>>)
         \o setup_entities(Tail(mappings))

(***************************************************************************)
(* Observers.                                                              *)
(***************************************************************************)
Idle == [phase |-> 0, sw |-> 0, first |-> "none", orig |-> <<>>]

\* The datapoint a switch writes: the program datapoint for the repeat
\* setter, its own otherwise.
WrittenId(m) ==
    IF Truthy(m.setter)
    THEN IF ~IsNone(product) /\ ~IsNone(product.fingerbot) /\ product.fingerbot.program # 0
         THEN product.fingerbot.program
         ELSE 0
    ELSE m.dp_id

\* A write method of a switch (op is "on" or "off") that finds no write
\* waiting and a stored bytes value (of the mask's length, for a masked
\* switch) starts an observation: phase 1 until its write is stored, phase 2
\* then; turn_off of the same switch after a turn_on leads on to 3 and 4.
RoundtripStart(i, op) ==
    LET m == switches[i]
        id == WrittenId(m)
    IN  IF /\ Truthy(m.setter) \/ MaskTruthy(m.bitmap_mask)
           /\ tasks = <<>>
           /\ id # 0
           /\ ~IsNone(datapoints[id])
           /\ datapoints[id].value.k = "bytes"
           /\ Truthy(m.setter) \/ Len(datapoints[id].value.v) = Len(m.bitmap_mask.v)
        THEN [phase |-> 1, sw |-> i, first |-> op, orig |-> datapoints[id].value.v]
        ELSE Idle

NoPair == [on |-> <<>>, done |-> 0]

\* Two switches write the same datapoint through masks with no bit in common.
DisjointMasksOnOneDatapoint(i, j) ==
    LET a == switches[i]
        b == switches[j]
    IN  /\ i # j
        /\ ~Truthy(a.setter) /\ ~Truthy(b.setter)
        /\ MaskTruthy(a.bitmap_mask) /\ MaskTruthy(b.bitmap_mask)
        /\ a.dp_id = b.dp_id
        /\ Len(a.bitmap_mask.v) = Len(b.bitmap_mask.v)
        /\ \A p \in 1..Len(a.bitmap_mask.v) :
               BitAnd(a.bitmap_mask.v[p], b.bitmap_mask.v[p]) = 0

\* The pair observer after turn_on of switch i: it follows a first turn_on
\* issued with no write scheduled, on a stored value of the mask's length,
\* and a second one on the other switch of the datapoint; any other write,
\* report or failed task in between ends the observation.
PairTurnedOn(i) ==
    LET m == switches[i]
        fits == /\ ~Truthy(m.setter)
                /\ MaskTruthy(m.bitmap_mask)
                /\ ~IsNone(datapoints[m.dp_id])
                /\ datapoints[m.dp_id].value.k = "bytes"
                /\ Len(datapoints[m.dp_id].value.v) = Len(m.bitmap_mask.v)
    IN  IF fits /\ Len(pair.on) = 1 /\ DisjointMasksOnOneDatapoint(pair.on[1], i)
        THEN [pair EXCEPT !.on = Append(@, i)]
        ELSE IF fits /\ tasks = <<>>
             THEN [on |-> <<i>>, done |-> 0]
             ELSE NoPair

\* The debounce observer after a callback that proves the device alive.
AnsweredBy(callback) ==
    /\ since' = -1
    /\ absorbed' = IF since = -1 THEN absorbed
                   ELSE (callback = "connected" /\ since < DelayTicks)

(***************************************************************************)
(* Actions.                                                                *)
(***************************************************************************)
\* Transport callbacks reach the coordinator wherever main() is suspended;
\* the two setup calls follow each other without a suspension point.
CallbacksRun == pc # "buttons"

\* The transport's connected callback.
Connected ==
    /\ CallbacksRun
    /\ SetCoordinator(async_handle_connect(Coordinator))
    /\ AnsweredBy("connected")
    /\ UNCHANGED <<identity_vars, event_vars, pc, datapoints, tasks, setup_vars, roundtrip, pair>>

\* The transport's disconnected callback.
Disconnected ==
    /\ CallbacksRun
    /\ SetCoordinator(async_handle_disconnect(Coordinator))
    /\ since' = IF connected /\ since = -1 THEN 0 ELSE since
    /\ absorbed' = IF connected THEN FALSE ELSE absorbed
    /\ UNCHANGED <<identity_vars, event_vars, pc, datapoints, tasks, setup_vars, roundtrip, pair>>

\* Observer: some update of the callback is a device-initiated change of the
\* trigger datapoint of a product whose fingerbot block enables manual control.
PhysicalActivation(info, updates) ==
    /\ ~IsNone(info)
    /\ ~IsNone(info.fingerbot)
    /\ info.fingerbot.manual_control # 0
    /\ \E k \in 1..Len(updates) :
           /\ updates[k].id = info.fingerbot.switch
           /\ updates[k].changed_by_device

\* The changed_by_device flags a reported datapoint may carry: either one
\* where _async_handle_update reads the flag (the trigger datapoint of a
\* product with manual control), True where it is not read.
ChangedByDevice(info, r) ==
    IF /\ ~IsNone(info)
       /\ ~IsNone(info.fingerbot)
       /\ info.fingerbot.manual_control # 0
       /\ r.id = info.fingerbot.switch
    THEN BOOLEAN
    ELSE {TRUE}

\* The transport stores a reported datapoint and calls the update callback.
DatapointsUpdated ==
    /\ CallbacksRun
    /\ \E r \in DeviceReports(tables, device) :
          \E changed_by_device \in ChangedByDevice(product, r) :
              LET updates == <<Update(r, changed_by_device)>>
              IN  /\ datapoints' = update_from_device(datapoints, r)
                  /\ SetCoordinator(async_handle_update(Coordinator, updates))
                  /\ events' = events \o async_handle_update_events(product, updates)
                  /\ activation' = PhysicalActivation(product, updates)
    /\ AnsweredBy("updated")
    /\ roundtrip' = Idle
    /\ pair' = NoPair
    /\ UNCHANGED <<identity_vars, pc, tasks, setup_vars>>

\* One tick of time passes while a disconnect waits for its answer or a
\* delayed call is pending.
Tick ==
    /\ since \in 0..DelayTicks \/ timers # {}
    /\ SetCoordinator(tick(Coordinator))
    /\ since' = IF since \in 0..DelayTicks THEN since + 1 ELSE since
    /\ UNCHANGED <<identity_vars, event_vars, pc, datapoints, tasks, setup_vars, absorbed, roundtrip, pair>>

\* main(): switches = await async_setup_switches(...)
async_setup_switches ==
    /\ pc = "update"
    /\ LET mappings == switch_get_mapping_by_device(SwitchTable(tables), device)
       IN  /\ switch_mappings' = mappings
           /\ switches' = IF mappings.tag = "list" THEN setup_entities(mappings.v) ELSE <<>>
           /\ pc' = IF mappings.tag = "list" THEN "buttons" ELSE "raised"
    /\ UNCHANGED <<identity_vars, event_vars, coordinator_vars, datapoints, tasks,
                   button_mappings, buttons, debounce_vars, roundtrip, pair>>

\* main(): buttons = await async_setup_buttons(...)
async_setup_buttons ==
    /\ pc = "buttons"
    /\ LET mappings == button_get_mapping_by_device(ButtonTable(tables), device)
       IN  /\ button_mappings' = mappings
           /\ buttons' = IF mappings.tag = "list" THEN setup_entities(mappings.v) ELSE <<>>
           /\ pc' = IF mappings.tag = "list" THEN "serve" ELSE "raised"
    /\ UNCHANGED <<identity_vars, event_vars, coordinator_vars, datapoints, tasks,
                   switch_mappings, switches, debounce_vars, roundtrip, pair>>

\* Faulty variant: the write method awaits set_value instead of scheduling it.
Apply_awaiting(effect) ==
    /\ datapoints' = IF IsNone(effect.task) THEN effect.store
                      ELSE set_value(effect.store, effect.task.id, effect.task.value)
    /\ tasks' = tasks

\* A write method ran: the store it leaves and the task it scheduled.
Apply(effect) ==
    /\ datapoints' = effect.store
    /\ tasks' = IF IsNone(effect.task) THEN tasks ELSE Append(tasks, effect.task)

turn_on(i) ==
    /\ pc = "serve"
    /\ Len(tasks) < MaxTasks
    /\ Apply(turn_on_effect(switches[i]))
    /\ roundtrip' = RoundtripStart(i, "on")
    /\ pair' = PairTurnedOn(i)
    /\ UNCHANGED <<identity_vars, event_vars, pc, coordinator_vars, setup_vars, debounce_vars>>

turn_off(i) ==
    /\ pc = "serve"
    /\ Len(tasks) < MaxTasks
    /\ Apply(turn_off_effect(switches[i]))
    /\ roundtrip' = IF /\ roundtrip.phase = 2
                       /\ roundtrip.sw = i
                       /\ roundtrip.first = "on"
                       /\ MaskTruthy(switches[i].bitmap_mask)
                    THEN [roundtrip EXCEPT !.phase = 3]
                    ELSE RoundtripStart(i, "off")
    /\ pair' = NoPair
    /\ UNCHANGED <<identity_vars, event_vars, pc, coordinator_vars, setup_vars, debounce_vars>>

press(i) ==
    /\ pc = "serve"
    /\ Len(tasks) < MaxTasks
    /\ Apply(press_effect(buttons[i]))
    /\ roundtrip' = Idle
    /\ pair' = NoPair
    /\ UNCHANGED <<identity_vars, event_vars, pc, coordinator_vars, setup_vars, debounce_vars>>

\* A caller reads is_on of a switch.
read_is_on(i) ==
    /\ pc = "serve"
    /\ datapoints' = is_on_datapoints(switches[i])
    /\ UNCHANGED <<identity_vars, event_vars, pc, coordinator_vars, tasks, setup_vars,
                   debounce_vars, roundtrip, pair>>

\* A caller reads available of a switch, of a button.
read_switch_available(i) ==
    /\ pc = "serve"
    /\ datapoints' = switch_available_datapoints(switches[i])
    /\ UNCHANGED <<identity_vars, event_vars, pc, coordinator_vars, tasks, setup_vars,
                   debounce_vars, roundtrip, pair>>

read_button_available(i) ==
    /\ pc = "serve"
    /\ datapoints' = button_available_datapoints(buttons[i])
    /\ UNCHANGED <<identity_vars, event_vars, pc, coordinator_vars, tasks, setup_vars,
                   debounce_vars, roundtrip, pair>>

\* The event loop runs the oldest scheduled set_value.
run_task ==
    /\ tasks # <<>>
    /\ datapoints' = set_value(datapoints, Head(tasks).id, Head(tasks).value)
    /\ tasks' = Tail(tasks)
    /\ roundtrip' = IF roundtrip.phase \in {1, 3}
                    THEN [roundtrip EXCEPT !.phase = @ + 1]
                    ELSE Idle
    /\ pair' = IF pair.done < Len(pair.on)
               THEN [pair EXCEPT !.done = @ + 1]
               ELSE NoPair
    /\ UNCHANGED <<identity_vars, event_vars, pc, coordinator_vars, setup_vars, debounce_vars>>

\* The oldest scheduled set_value raises inside its task: the task ends with
\* the exception, which nothing retrieves, and nothing schedules it again.
run_task_raises ==
    /\ tasks # <<>>
    /\ tasks' = Tail(tasks)
    /\ roundtrip' = Idle
    /\ pair' = NoPair
    /\ UNCHANGED <<identity_vars, event_vars, pc, coordinator_vars, datapoints, setup_vars,
                   debounce_vars>>

\* main(): await smart_lock_device.device.stop().  The coordinator has no
\* teardown of its own: the callbacks it registered with the device at
\* construction stay registered and nothing of its state is touched.
stop ==
    /\ pc = "serve"
    /\ pc' = "stopped"
    /\ UNCHANGED <<identity_vars, event_vars, coordinator_vars, datapoints, tasks, setup_vars,
                   debounce_vars, roundtrip, pair>>

\* get_ble_data_by_address up to the coordinator's construction.
Init ==
    /\ tables \in {"shipped", "lab"}
    /\ device \in Devices(tables)
    /\ product = get_device_product_info(Database(tables), device)
    /\ pc = "update"
    /\ disconnected = coordinator_init.disconnected
    /\ unsub_disconnect = coordinator_init.unsub_disconnect
    /\ timers = coordinator_init.timers
    /\ datapoints = [id \in DpIds |-> None]
    /\ tasks = <<>>
    /\ switch_mappings = List(<<>>)
    /\ switches = <<>>
    /\ button_mappings = List(<<>>)
    /\ buttons = <<>>
    /\ since = -1
    /\ absorbed = FALSE
    /\ roundtrip = Idle
    /\ pair = NoPair
    /\ events = <<>>
    /\ activation = FALSE

Next ==
    \/ Connected
    \/ Disconnected
    \/ DatapointsUpdated
    \/ Tick
    \/ async_setup_switches
    \/ async_setup_buttons
    \/ \E i \in 1..Len(switches) : turn_on(i)
    \/ \E i \in 1..Len(switches) : turn_off(i)
    \/ \E i \in 1..Len(buttons) : press(i)
    \/ \E i \in 1..Len(switches) : read_is_on(i)
    \/ \E i \in 1..Len(switches) : read_switch_available(i)
    \/ \E i \in 1..Len(buttons) : read_button_available(i)
    \/ run_task
    \/ run_task_raises
    \/ stop

Spec == Init /\ [][Next]_vars

(***************************************************************************)
(* Properties.                                                             *)
(***************************************************************************)
\* C1: a disconnected callback answered by a connected callback before the
\* debounce delay elapses never makes connected() report false: not while
\* the disconnect waits for its answer, and not after the reconnect.
C1_NoFlap == (since \in 0..(DelayTicks - 1) \/ absorbed) => connected

\* C1 witness: a blip was absorbed.
C1_Witness == absorbed /\ connected

\* C2: once a disconnected callback reached a connected coordinator and no
\* connected or datapoint-updated callback followed, connected() reports true
\* while the delay runs and false from the moment it has elapsed.
C2_RealDisconnect == since >= 0 => (connected <=> since < DelayTicks)

\* A mapping whose predicate would say "available".
PredicateSaysAvailable(m) ==
    /\ Truthy(m.is_available)
    /\ IsAvailablePredicate(m.is_available, product) = RetBool(TRUE)

\* C3: while the coordinator reports disconnected every switch and every
\* button is unavailable, with or without a predicate and whatever the
\* predicate would return.
C3_UnavailableWhenDisconnected ==
    disconnected =>
        /\ \A i \in 1..Len(switches) : switch_available(switches[i]) = RetBool(FALSE)
        /\ \A i \in 1..Len(buttons) : button_available(buttons[i]) = RetBool(FALSE)

\* C3 witness: a disconnected coordinator with assembled surfaces, one of
\* them with a predicate that would return true.
C3_Witness ==
    /\ disconnected
    /\ pc = "serve"
    /\ \E i \in 1..Len(switches) : PredicateSaysAvailable(switches[i])

\* C4: press creates an absent datapoint as boolean false and schedules, as
\* one more task, the write of the negation of the value the store holds at
\* that moment.
C4_PressWritesNegation ==
    [][\A i \in 1..Len(buttons) :
          press(i) =>
              LET id == buttons[i].dp_id
                  current == IF IsNone(datapoints[id]) THEN FALSE
                             ELSE ToBool(datapoints[id].value)
              IN  /\ tasks' = Append(tasks, Task(id, PyBool(~current)))
                  /\ IsNone(datapoints[id]) =>
                         datapoints'[id] = DataPoint("DT_BOOL", PyBool(FALSE))]_vars

\* C4 witness: two presses of a button whose datapoint reads false are both
\* waiting, each with a write of true; no switch writes that datapoint.
C4_Witness ==
    \E i \in 1..Len(buttons) :
        LET id == buttons[i].dp_id
        IN  /\ \A j \in 1..Len(switches) : WrittenId(switches[j]) # id
            /\ ~IsNone(datapoints[id])
            /\ datapoints[id].value = PyBool(FALSE)
            /\ tasks = <<Task(id, PyBool(TRUE)), Task(id, PyBool(TRUE))>>

\* Bit k of a byte.
Bit(n, k) == (n \div (2 ^ k)) % 2

\* Every bit under the mask has the given state, every other bit is the
\* original's.
MaskedBitsAre(value, mask, orig, state) ==
    /\ Len(value) = Len(orig)
    /\ \A p \in 1..Len(orig) : \A k \in 0..7 :
          Bit(value[p], k) = IF Bit(mask[p], k) = 1 THEN state ELSE Bit(orig[p], k)

\* C5: on a stored value of the mask's length, turn_on, once stored, has set
\* every masked bit and kept every other bit; turn_off after it, once stored,
\* has cleared every masked bit and kept every other bit of the original.
C5_BitmapRoundTrip ==
    (roundtrip.phase \in {2, 4} /\ MaskTruthy(switches[roundtrip.sw].bitmap_mask)) =>
        LET m == switches[roundtrip.sw]
            stored == datapoints[m.dp_id].value
        IN  /\ stored.k = "bytes"
            /\ roundtrip.phase = 2 /\ roundtrip.first = "on" =>
                   MaskedBitsAre(stored.v, m.bitmap_mask.v, roundtrip.orig, 1)
            /\ roundtrip.phase = 2 /\ roundtrip.first = "off" =>
                   MaskedBitsAre(stored.v, m.bitmap_mask.v, roundtrip.orig, 0)
            /\ roundtrip.phase = 4 =>
                   MaskedBitsAre(stored.v, m.bitmap_mask.v, roundtrip.orig, 0)

\* C5 witness: a completed round trip on an original with a masked bit set
\* and bits outside the mask set.
C5_Witness ==
    /\ roundtrip.phase = 4
    /\ LET mask == switches[roundtrip.sw].bitmap_mask.v
       IN  \E p \in 1..Len(mask) :
               /\ BitAnd(roundtrip.orig[p], mask[p]) # 0
               /\ BitAndInvert(roundtrip.orig[p], mask[p]) # 0

\* The store reports the mapping's datapoint, of the hinted type if any.
Reported(m) ==
    /\ ~IsNone(datapoints[m.dp_id])
    /\ m.dp_type # "None" => datapoints[m.dp_id].type = m.dp_type

WithSurface(m) == m.force_add \/ Reported(m)

\* C6: setup creates a surface for exactly the resolved mappings that are
\* force_add or whose datapoint the store reports at that moment (with the
\* hinted type), in the order of the mapping list.
C6_SetupAssembly ==
    [][/\ async_setup_switches =>
              switches' = SelectSeq(switch_mappings'.v, WithSurface)
       /\ async_setup_buttons =>
              buttons' = SelectSeq(button_mappings'.v, WithSurface)]_vars

\* C6 witness: of the resolved mappings that are not force_add one got a
\* surface and one did not, next to a force_add mapping that did.
C6_Witness ==
    /\ pc = "serve"
    /\ Len(switch_mappings.v) = 1 /\ ~switch_mappings.v[1].force_add
    /\ Len(switches) = 1
    /\ Len(button_mappings.v) = 2 /\ ~button_mappings.v[1].force_add
    /\ buttons = <<button_mappings.v[2]>>

\* The records of the device's category in the catalog and the two tables.
CatalogCategory == DictGet(Database(tables), device.category)

SwitchCategory == DictGet(SwitchTable(tables), device.category)

ButtonCategory == DictGet(ButtonTable(tables), device.category)

HasProductInfo ==
    ~IsNone(CatalogCategory) /\ device.product_id \in DOMAIN CatalogCategory.products

HasProductMapping(category) ==
    /\ ~IsNone(category)
    /\ ~IsNone(category.products)
    /\ device.product_id \in DOMAIN category.products.v

\* The documented default of a mapping table for a pair it does not list: an
\* empty list, or the category fallback; the fallback whenever the category
\* has a product map and a fallback.
IsMappingDefault(result, category) ==
    /\ result.tag = "list"
    /\ IF IsNone(category) \/ IsNone(category.mapping)
       THEN result.v = <<>>
       ELSE IF ~IsNone(category.products)
            THEN result = category.mapping
            ELSE result = category.mapping \/ result.v = <<>>

C8_ProductOverridesFallback ==
    /\ (HasProductInfo /\ ~IsNone(CatalogCategory.info)) =>
           product = CatalogCategory.products[device.product_id]
    /\ (pc \in {"buttons", "serve"} /\ HasProductMapping(SwitchCategory)
            /\ ~IsNone(SwitchCategory.mapping)) =>
           switch_mappings = SwitchCategory.products.v[device.product_id]
    /\ (pc = "serve" /\ HasProductMapping(ButtonCategory)
            /\ ~IsNone(ButtonCategory.mapping)) =>
           button_mappings = ButtonCategory.products.v[device.product_id]

\* C8 witness: a session whose pair has an entry and a fallback in all three
\* tables, the entries differing from the fallbacks.
C8_Witness ==
    /\ pc = "serve"
    /\ HasProductInfo /\ ~IsNone(CatalogCategory.info)
    /\ product # CatalogCategory.info
    /\ HasProductMapping(SwitchCategory) /\ ~IsNone(SwitchCategory.mapping)
    /\ switch_mappings # SwitchCategory.mapping
    /\ HasProductMapping(ButtonCategory) /\ ~IsNone(ButtonCategory.mapping)
    /\ button_mappings # ButtonCategory.mapping

\* C9: once the write of the repeat setter is stored, the program datapoint
\* holds the bytes it held before from offset 2 onward; after setting true
\* its first two bytes are 0xFF 0xFF and the getter reads true.
C9_ProgramRepeat ==
    (roundtrip.phase = 2 /\ Truthy(switches[roundtrip.sw].setter)) =>
        LET stored == datapoints[product.fingerbot.program].value
        IN  /\ stored.k = "bytes"
            /\ SliceFrom2(stored.v) = SliceFrom2(roundtrip.orig)
            /\ roundtrip.first = "on" =>
                   /\ Slice02(stored.v) = <<255, 255>>
                   /\ is_on(switches[roundtrip.sw]) = RetBool(TRUE)

\* C9 witness: repeat-forever was set on a value with bytes past offset 2
\* that did not read repeat-forever before, and the write is stored.
C9_Witness ==
    /\ roundtrip.phase = 2
    /\ Truthy(switches[roundtrip.sw].setter)
    /\ roundtrip.first = "on"
    /\ Len(roundtrip.orig) > 2
    /\ Slice02(roundtrip.orig) # <<255, 255>>

\* C10: a new coordinator is Disconnected with no token and no delayed call;
\* connected() turns true only in a connected or datapoint-updated callback,
\* and is true right after a connected callback.
C10_InitiallyDisconnected ==
    /\ ~connected /\ IsNone(unsub_disconnect) /\ timers = {}
    /\ [][/\ (~connected /\ connected') => (Connected \/ DatapointsUpdated)
          /\ Connected => connected']_vars

\* C10 witness: connected() reports true and no datapoint was ever reported,
\* so it was a connected callback that reached the new coordinator.
C10_Witness == connected /\ \A id \in DpIds : IsNone(datapoints[id])

\* C12: a datapoint-updated callback first performs the connect transition:
\* whatever the state before it, the coordinator after it is the one the
\* connected callback would leave, connected() reports true and no delayed
\* disconnect is pending.
C12_UpdateImpliesLiveness ==
    [][DatapointsUpdated =>
          /\ connected'
          /\ timers' = {}
          /\ disconnected' = async_handle_connect(Coordinator).disconnected
          /\ unsub_disconnect' = async_handle_connect(Coordinator).unsub_disconnect
          /\ timers' = async_handle_connect(Coordinator).timers]_vars

\* C12 witness: connected() reports true while main() still waits for the
\* first update and the store holds a reported datapoint, so a
\* datapoint-updated callback has run.
C12_Witness ==
    /\ pc = "update"
    /\ connected
    /\ \E id \in DpIds : ~IsNone(datapoints[id])

\* A switch that reads through the mask: no getter, a non-empty mask, a
\* stored bytes value of raw or bitmap type.
ReadsThroughMask(m) ==
    /\ ~Truthy(m.getter)
    /\ MaskTruthy(m.bitmap_mask)
    /\ ~IsNone(datapoints[m.dp_id])
    /\ datapoints[m.dp_id].type \in {"DT_RAW", "DT_BITMAP"}
    /\ datapoints[m.dp_id].value.k = "bytes"

\* C13: is_on of a switch that reads through the mask returns false, and
\* raises nothing, when value and mask differ in length; when they are of
\* one length it returns true exactly if some byte position has a nonzero
\* value & mask.
C13_MaskedRead ==
    \A i \in 1..Len(switches) :
        ReadsThroughMask(switches[i]) =>
            LET value == datapoints[switches[i].dp_id].value.v
                mask == switches[i].bitmap_mask.v
            IN  is_on(switches[i]) =
                    RetBool(/\ Len(value) = Len(mask)
                            /\ \E p \in 1..Len(mask) : BitAnd(value[p], mask[p]) # 0)

\* A switch that reads its own datapoint and finds none in the store.
ReadsAbsent(m) == ~Truthy(m.getter) /\ IsNone(datapoints[m.dp_id])

\* C14: is_on of a switch without a getter whose datapoint the store does
\* not hold returns false, raises nothing, and the read leaves the store as
\* it was, the datapoint still absent.
C14_AbsentReadsOff ==
    /\ [](\A i \in 1..Len(switches) :
             ReadsAbsent(switches[i]) => is_on(switches[i]) = RetBool(FALSE))
    /\ [][\A i \in 1..Len(switches) :
             (read_is_on(i) /\ ReadsAbsent(switches[i])) => datapoints' = datapoints]_vars

\* C14 witness: assembled switches are served, one of them without a getter
\* and with no datapoint of its id in the store.
C14_Witness ==
    /\ pc = "serve"
    /\ \E i \in 1..Len(switches) : ReadsAbsent(switches[i])

\* A step in which a caller runs a write method of a surface.
WriteStep ==
    \/ \E i \in 1..Len(switches) : turn_on(i) \/ turn_off(i)
    \/ \E i \in 1..Len(buttons) : press(i)

\* C15: a write method returns with its write no more than scheduled: the
\* step appends at most one task behind those waiting and changes the value
\* of no datapoint the store holds; and the list of waiting tasks never gains
\* or swaps a task outside a caller's write step, so a write that ended in
\* an exception is not scheduled again.
C15_FireAndForget ==
    [][/\ WriteStep =>
              /\ \A id \in DpIds :
                     ~IsNone(datapoints[id]) => datapoints'[id] = datapoints[id]
              /\ \/ tasks' = tasks
                 \/ /\ Len(tasks') = Len(tasks) + 1
                    /\ SubSeq(tasks', 1, Len(tasks)) = tasks
       /\ (tasks' # tasks /\ Len(tasks') >= Len(tasks)) => WriteStep]_vars

\* C15 witness: the caller has its control back while the write it asked for
\* still waits, the store not yet holding the value to be written.
C15_Witness ==
    /\ pc = "serve"
    /\ tasks # <<>>
    /\ ~IsNone(datapoints[Head(tasks).id])
    /\ datapoints[Head(tasks).id].value # Head(tasks).value

\* C16: once the device session is stopped no delayed disconnect is pending
\* and no later callback or timer firing changes what connected() reports.
C16_ShutdownSilences ==
    [][pc = "stopped" => (timers' = {} /\ connected' = connected)]_vars

\* connected() AND (no predicate OR predicate(self, product)); what the
\* predicate raises, the conjunction raises.
ConnectedAndPredicate(m) ==
    IF ~connected THEN RetBool(FALSE)
    ELSE IF ~Truthy(m.is_available) THEN RetBool(TRUE)
    ELSE IsAvailablePredicate(m.is_available, product)

\* C17: available of every switch and every button is connected() AND (no
\* predicate OR predicate(self, product)): while the coordinator reports
\* connected it is the predicate's result, and true without a predicate.
C17_Availability ==
    /\ \A i \in 1..Len(switches) :
           switch_available(switches[i]) = ConnectedAndPredicate(switches[i])
    /\ \A i \in 1..Len(buttons) :
           button_available(buttons[i]) = ConnectedAndPredicate(buttons[i])

\* C17 witness: a connected coordinator serving a switch whose predicate
\* returns false, which makes the switch unavailable.
C17_Witness ==
    /\ pc = "serve"
    /\ connected
    /\ \E i \in 1..Len(switches) :
           /\ Truthy(switches[i].is_available)
           /\ IsAvailablePredicate(switches[i].is_available, product) = RetBool(FALSE)
           /\ switch_available(switches[i]) = RetBool(FALSE)

\* A switch that writes through the mask: no setter, a non-empty mask.
WritesThroughMask(m) == ~Truthy(m.setter) /\ MaskTruthy(m.bitmap_mask)

\* The store holds no datapoint for the switch, or bytes of the mask's length.
AbsentOrMaskLength(m) ==
    \/ IsNone(datapoints[m.dp_id])
    \/ /\ datapoints[m.dp_id].value.k = "bytes"
       /\ Len(datapoints[m.dp_id].value.v) = Len(m.bitmap_mask.v)

\* The write method's step fetched or created the datapoint of m and
\* appended one task: a write to that datapoint of bytes, each in 0..255,
\* with every masked bit in the given state and every other bit as fetched.
MaskedWriteScheduled(m, state) ==
    LET absent == IsNone(datapoints[m.dp_id])
        mask == m.bitmap_mask.v
        created == DataPoint("DT_BITMAP", PyBytes(mask))
        fetched == IF absent THEN mask ELSE datapoints[m.dp_id].value.v
    IN  /\ datapoints' = IF absent THEN [datapoints EXCEPT ![m.dp_id] = created]
                         ELSE datapoints
        /\ Len(tasks') = Len(tasks) + 1
        /\ SubSeq(tasks', 1, Len(tasks)) = tasks
        /\ LET task == tasks'[Len(tasks')]
           IN  /\ task.id = m.dp_id
               /\ task.value.k = "bytes"
               /\ \A p \in 1..Len(task.value.v) : task.value.v[p] \in 0..255
               /\ MaskedBitsAre(task.value.v, mask, fetched, state)

\* C18: for a switch with a mask and no setter, on an absent datapoint or a
\* stored value of the mask's length, turn_on fetches or creates the
\* datapoint (created as bitmap holding the mask) and schedules the write of
\* value | mask per byte, turn_off that of value & ~mask per byte; the bytes
\* written stay within 0..255 and keep every bit outside the mask.
C18_MaskedWrite ==
    [][\A i \in 1..Len(switches) :
          (WritesThroughMask(switches[i]) /\ AbsentOrMaskLength(switches[i])) =>
              /\ turn_on(i) => MaskedWriteScheduled(switches[i], 1)
              /\ turn_off(i) => MaskedWriteScheduled(switches[i], 0)]_vars

\* C18 witness: the write of a turn_on waits: it sets a masked bit that the
\* stored value has clear and carries the bits the value has outside the mask.
C18_Witness ==
    /\ pc = "serve"
    /\ Len(tasks) = 1
    /\ \E i \in 1..Len(switches) :
           LET m == switches[i]
           IN  /\ WritesThroughMask(m)
               /\ ~IsNone(datapoints[m.dp_id])
               /\ AbsentOrMaskLength(m)
               /\ tasks[1].id = m.dp_id
               /\ tasks[1].value.k = "bytes"
               /\ MaskedBitsAre(tasks[1].value.v, m.bitmap_mask.v,
                                datapoints[m.dp_id].value.v, 1)
               /\ \E p \in 1..Len(m.bitmap_mask.v) :
                      /\ BitAnd(datapoints[m.dp_id].value.v[p], m.bitmap_mask.v[p]) = 0
                      /\ m.bitmap_mask.v[p] # 0
               /\ \E p \in 1..Len(m.bitmap_mask.v) :
                      BitAndInvert(datapoints[m.dp_id].value.v[p], m.bitmap_mask.v[p]) # 0

\* The store holds bytes for the switch, of another length than its mask.
OtherLengthThanMask(m) ==
    /\ ~IsNone(datapoints[m.dp_id])
    /\ datapoints[m.dp_id].value.k = "bytes"
    /\ Len(datapoints[m.dp_id].value.v) # Len(m.bitmap_mask.v)

\* C19: for a switch with a mask and no setter whose stored value differs in
\* length from the mask, turn_on and turn_off are no-ops: they schedule no
\* write, leave the store as it is and raise nothing.
C19_MismatchIsNoOp ==
    pc = "serve" =>
        \A i \in 1..Len(switches) :
            (WritesThroughMask(switches[i]) /\ OtherLengthThanMask(switches[i])) =>
                /\ turn_on_effect(switches[i]) = Effect(datapoints, None, "None")
                /\ turn_off_effect(switches[i]) = Effect(datapoints, None, "None")

\* A category record with a fallback list and no entry for the device's
\* product id, whether for want of the id or of a product map.
FallbackApplies(category) ==
    /\ ~IsNone(category)
    /\ ~IsNone(category.mapping)
    /\ ~HasProductMapping(category)

\* C20: where the category record of a table defines a fallback list and has
\* no entry for the product id, resolution returns the fallback list, also
\* when the record has no product map at all.
C20_CategoryFallback ==
    /\ (pc \in {"buttons", "serve", "stopped"} /\ FallbackApplies(SwitchCategory)) =>
           switch_mappings = SwitchCategory.mapping
    /\ (pc \in {"serve", "stopped"} /\ FallbackApplies(ButtonCategory)) =>
           button_mappings = ButtonCategory.mapping

\* A switch that writes its own boolean datapoint: no setter, no mask.
WritesBoolean(m) == ~Truthy(m.setter) /\ ~MaskTruthy(m.bitmap_mask)

\* The write method's step fetched the datapoint of m, or created it as a
\* boolean holding the given default, and appended the write of the target.
BooleanWriteScheduled(m, default, target) ==
    /\ datapoints' = IF IsNone(datapoints[m.dp_id])
                     THEN [datapoints EXCEPT
                               ![m.dp_id] = DataPoint("DT_BOOL", PyBool(default))]
                     ELSE datapoints
    /\ tasks' = Append(tasks, Task(m.dp_id, PyBool(target)))

\* C21 as stated: a switch without mask or setter fetches its datapoint or
\* creates it as a boolean holding false, and schedules the write of the
\* literal target, true for turn_on and false for turn_off; an absent
\* datapoint reads false until the turn_on write is stored.
C21_BooleanWriteDefaultFalse ==
    [][\A i \in 1..Len(switches) :
          WritesBoolean(switches[i]) =>
              /\ turn_on(i) => BooleanWriteScheduled(switches[i], FALSE, TRUE)
              /\ turn_off(i) => BooleanWriteScheduled(switches[i], FALSE, FALSE)]_vars

\* C21 amended: the datapoint is fetched or created as a boolean holding the
\* target of the call, true for turn_on and false for turn_off, and the
\* write of that target is scheduled; an absent datapoint reads true from
\* the call of turn_on on.
C21_BooleanWriteDefaultTarget ==
    [][\A i \in 1..Len(switches) :
          WritesBoolean(switches[i]) =>
              /\ turn_on(i) => BooleanWriteScheduled(switches[i], TRUE, TRUE)
              /\ turn_off(i) => BooleanWriteScheduled(switches[i], FALSE, FALSE)]_vars

\* C21 witness: the coordinator never saw a callback, so the store got its
\* boolean datapoint from turn_on: it holds true while the write still waits.
C21_Witness ==
    /\ pc = "serve"
    /\ disconnected
    /\ \E i \in 1..Len(switches) :
           /\ WritesBoolean(switches[i])
           /\ datapoints[switches[i].dp_id] = DataPoint("DT_BOOL", PyBool(TRUE))
           /\ tasks = <<Task(switches[i].dp_id, PyBool(TRUE))>>

\* The write method's step is the setter's and nothing more: the store is
\* as before, and the only task it may have appended writes the program
\* datapoint, its repeat count set for the target, never the datapoint of m.
OnlySetterRan(m, target) ==
    /\ datapoints' = datapoints
    /\ \/ tasks' = tasks
       \/ /\ Len(tasks') = Len(tasks) + 1
          /\ SubSeq(tasks', 1, Len(tasks)) = tasks
          /\ LET task == tasks'[Len(tasks')]
             IN  /\ task.id # m.dp_id
                 /\ task.id = product.fingerbot.program
                 /\ task.value.k = "bytes"
                 /\ Slice02(task.value.v) = IntToBytes2(IF target THEN 65535 ELSE 1)

\* C22: turn_on and turn_off of a switch with a setter do what the setter
\* does with the target boolean and nothing else: the switch's own datapoint
\* is neither fetched nor created and no write to it is scheduled.
C22_SetterOverride ==
    [][\A i \in 1..Len(switches) :
          Truthy(switches[i].setter) =>
              /\ turn_on(i) => OnlySetterRan(switches[i], TRUE)
              /\ turn_off(i) => OnlySetterRan(switches[i], FALSE)]_vars

\* C22 witness: the setter's write of turn_off waits for the program
\* datapoint while the store holds no datapoint of the switch's own id.
C22_Witness ==
    /\ pc = "serve"
    /\ Len(tasks) = 1
    /\ \E i \in 1..Len(switches) :
           /\ Truthy(switches[i].setter)
           /\ IsNone(datapoints[switches[i].dp_id])
           /\ tasks[1].id = product.fingerbot.program
           /\ tasks[1].id # switches[i].dp_id
           /\ tasks[1].value.k = "bytes"
           /\ Slice02(tasks[1].value.v) = <<0, 1>>

\* The product record has a fingerbot block.
HasFingerbot == ~IsNone(product) /\ ~IsNone(product.fingerbot)

\* The store holds the mode datapoint and its value equals n.
ModeIs(n) ==
    /\ HasFingerbot
    /\ ~IsNone(datapoints[product.fingerbot.mode])
    /\ PyEqInt(datapoints[product.fingerbot.mode].value, n)

\* The store holds no mode datapoint yet.
ModeUnreported == HasFingerbot /\ IsNone(datapoints[product.fingerbot.mode])

\* C23 as stated: a button gated by the push-mode predicate is available
\* only when the mode datapoint's value is 0, a switch gated by the
\* switch-mode predicate only when it is 1, also while the mode datapoint
\* has not been reported.
C23_ModeGating ==
    /\ \A i \in 1..Len(buttons) :
           (/\ buttons[i].is_available = "is_fingerbot_in_push_mode"
            /\ button_available(buttons[i]) = RetBool(TRUE)) => ModeIs(0)
    /\ \A i \in 1..Len(switches) :
           (/\ switches[i].is_available = "is_fingerbot_in_switch_mode"
            /\ switch_available(switches[i]) = RetBool(TRUE)) => ModeIs(1)

\* C23 amended: for a product with a fingerbot block, a button gated by the
\* push-mode predicate is available only when the mode datapoint's value is
\* 0 or the store holds no mode datapoint yet, a switch gated by the
\* switch-mode predicate only when it is 1 or the store holds none yet.
C23_ModeGatingOnceReported ==
    HasFingerbot =>
        /\ \A i \in 1..Len(buttons) :
               (/\ buttons[i].is_available = "is_fingerbot_in_push_mode"
                /\ button_available(buttons[i]) = RetBool(TRUE)) =>
                   (ModeIs(0) \/ ModeUnreported)
        /\ \A i \in 1..Len(switches) :
               (/\ switches[i].is_available = "is_fingerbot_in_switch_mode"
                /\ switch_available(switches[i]) = RetBool(TRUE)) =>
                   (ModeIs(1) \/ ModeUnreported)

\* C23 witness: a switch gated by the switch-mode predicate is available
\* while the store holds no mode datapoint, and the device reports
\* datapoints other than the mode.
C23_Witness ==
    /\ pc = "serve"
    /\ ModeUnreported
    /\ \E id \in DpIds : ~IsNone(datapoints[id])
    /\ \E i \in 1..Len(switches) :
           /\ switches[i].is_available = "is_fingerbot_in_switch_mode"
           /\ switch_available(switches[i]) = RetBool(TRUE)

\* C24: the program-mode predicate of a served switch holds only when the
\* mode datapoint's value is 2 and the product's fingerbot block names a
\* program datapoint (program # 0).
C24_ProgramGating ==
    \A i \in 1..Len(switches) :
        (/\ switches[i].is_available = "is_fingerbot_in_program_mode"
         /\ is_fingerbot_in_program_mode(product) = RetBool(TRUE)) =>
            (ModeIs(2) /\ product.fingerbot.program # 0)

\* What the getter needs is there: a configured program id and, in the
\* store, a program datapoint holding bytes.
GetterDataPresent ==
    /\ HasFingerbot
    /\ product.fingerbot.program # 0
    /\ ~IsNone(datapoints[product.fingerbot.program])
    /\ datapoints[product.fingerbot.program].value.k = "bytes"

\* C25: is_on of a switch with a getter is the getter's result, and that is
\* a boolean in every state: false, not a failure and not a non-boolean,
\* when what the getter needs is absent.
C25_GetterReadsBoolean ==
    \A i \in 1..Len(switches) :
        Truthy(switches[i].getter) =>
            /\ is_on(switches[i]) = get_fingerbot_program_repeat_forever(product)
            /\ is_on(switches[i]).tag = "bool"
            /\ ~GetterDataPresent => is_on(switches[i]) = RetBool(FALSE)

\* A step in which a caller reads is_on or available of a surface.
ReadStep ==
    \/ \E i \in 1..Len(switches) : read_is_on(i) \/ read_switch_available(i)
    \/ \E i \in 1..Len(buttons) : read_button_available(i)

\* C26: reading is_on or available, predicates and getter included, leaves
\* the store, the coordinator and the waiting writes as they were; of the
\* surface's operations only the write methods bring a datapoint into the
\* store or add a waiting write (the transport, reporting, is the store's
\* other writer).
C26_ReadsArePure ==
    [][/\ ReadStep => UNCHANGED <<datapoints, tasks, coordinator_vars>>
       /\ (\E id \in DpIds : IsNone(datapoints[id]) /\ ~IsNone(datapoints'[id])) =>
              (WriteStep \/ DatapointsUpdated)
       /\ Len(tasks') > Len(tasks) => WriteStep]_vars

\* C26 witness: a connected session serves a switch with a getter and a
\* predicate whose own datapoint and whose program datapoint the store does
\* not hold: reads that find nothing, with nothing created.
C26_Witness ==
    /\ pc = "serve"
    /\ connected
    /\ \E i \in 1..Len(switches) :
           /\ Truthy(switches[i].getter)
           /\ Truthy(switches[i].is_available)
           /\ IsNone(datapoints[switches[i].dp_id])
           /\ ~GetterDataPresent

\* C27: for each updated datapoint the coordinator emits a physical-activation
\* event if and only if the product has a fingerbot block with manual control
\* enabled, the datapoint is that block's trigger and the device itself changed
\* it; a command echo or any other datapoint emits no event.
C27_ActivationEvent ==
    [][DatapointsUpdated =>
           Len(events') = Len(events) + (IF activation' THEN 1 ELSE 0)]_vars

\* A device-initiated change of the trigger datapoint arrives for a product
\* with manual control enabled, and no event was fired.
C27_ActivationSilent == activation /\ events = <<>>

\* C28: the token is held only while the delayed call it stands for is
\* pending, and after an absorbed blip it is None again: the next disconnected
\* callback arms a fresh delayed call and holds its token.
C28_TokenTracksTimer ==
    /\ [](~IsNone(unsub_disconnect) =>
              \E t \in timers : t.id = unsub_disconnect.id)
    /\ [][(absorbed /\ connected /\ Disconnected) =>
              (~IsNone(unsub_disconnect') /\ timers' # {})]_vars

\* The part of C28 about the token alone; it holds with no token ever held.
C28_TokenOnlyWhileArmed ==
    ~IsNone(unsub_disconnect) => \E t \in timers : t.id = unsub_disconnect.id

\* A mapping whose surface consults the product record.
ReadsProduct(m) ==
    Truthy(m.is_available) \/ Truthy(m.getter) \/ Truthy(m.setter)

\* C29: every device the tables give a surface with a predicate, a getter or
\* a setter has a product record in the catalog, and with the coordinator
\* connected available and is_on of such a surface raise nothing for want of
\* the record.
C29_CatalogCoversMappings ==
    /\ \A i \in 1..Len(switches) :
           ReadsProduct(switches[i]) =>
               /\ ~IsNone(product)
               /\ connected => /\ switch_available(switches[i]).tag # "AttributeError"
                               /\ is_on(switches[i]).tag # "AttributeError"
    /\ \A i \in 1..Len(buttons) :
           ReadsProduct(buttons[i]) =>
               /\ ~IsNone(product)
               /\ connected => button_available(buttons[i]).tag # "AttributeError"

\* A connected coordinator serves a switch with a predicate for a device the
\* catalog has no record of: reading available raises.
C29_MissingRecordRaises ==
    /\ pc = "serve"
    /\ connected
    /\ IsNone(product)
    /\ \E i \in 1..Len(switches) :
           /\ ReadsProduct(switches[i])
           /\ switch_available(switches[i]) = Raise("AttributeError")

\* Every bit of the mask is set in the value.
HasMaskBits(value, mask) ==
    /\ Len(value) = Len(mask)
    /\ \A p \in 1..Len(mask) : BitAnd(value[p], mask[p]) = mask[p]

\* turn_on was issued on two switches with disjoint masks on one datapoint
\* and both scheduled writes have run, with no other write or report between.
BothTurnedOnAndStored == Len(pair.on) = 2 /\ pair.done = 2

\* C30: once turn_on was issued on two switches with disjoint masks on one
\* datapoint and both scheduled writes have run, the stored value has the
\* bits of both masks set, whatever the order of the two calls and the two
\* writes.
C30_NoLostUpdate ==
    BothTurnedOnAndStored =>
        LET stored == datapoints[switches[pair.on[1]].dp_id].value
        IN  /\ stored.k = "bytes"
            /\ HasMaskBits(stored.v, switches[pair.on[1]].bitmap_mask.v)
            /\ HasMaskBits(stored.v, switches[pair.on[2]].bitmap_mask.v)

\* Each write ran before the next turn_on was issued: both masks are set.
C30_SerialTurnOnsKeepBoth ==
    /\ BothTurnedOnAndStored
    /\ HasMaskBits(datapoints[switches[pair.on[1]].dp_id].value.v,
                   switches[pair.on[1]].bitmap_mask.v)
    /\ HasMaskBits(datapoints[switches[pair.on[1]].dp_id].value.v,
                   switches[pair.on[2]].bitmap_mask.v)

=============================================================================
